---- MODULE Spec2Model ----
(***************************************************************************)
(* Model of csv_to_db.py: the field classifier (match_type,                *)
(* guess_sql_type), the column type resolver (predict_column_types) and    *)
(* the part of csv_to_db that reads the file: header, type inference and   *)
(* row insertion, all over the one shared file object.                     *)
(*                                                                         *)
(* A field is a sequence of one-character strings.  A row is a sequence of *)
(* fields.  The file is a sequence of rows, its first row the header.      *)
(***************************************************************************)
EXTENDS Integers, Sequences, FiniteSets, TLC

VARIABLES file, filePos, pc, column_names, types, no_of_typed_columns,
          column_types, inserted, field, tag

vars == <<file, filePos, pc, column_names, types, no_of_typed_columns,
          column_types, inserted, field, tag>>

\* ---------------------------------------------------------------- bounds
\* data rows and columns of the files csv_to_db is run on
MaxRows == 4
MaxCols == 2
\* rows and columns of the streams predict_column_types is called on
MaxStreamRows == 2
MaxStreamCols == 2
\* tokens (digit runs, single characters) of the fields classified
MaxTokens == 5

\* ------------------------------------------------------------ type tags
None == "None"
Unassigned == "unassigned"
Pending == "pending"

\* ------------------------------------------------ regular expressions
Digit == {"0", "1", "2", "3", "4", "5", "6", "7", "8", "9"}
Sep == {".", "/", "-"}
Sign == {"-", "+"}
Dot == {"."}

\* hi = -1 stands for an unbounded repetition
Rep(cls, lo, hi) == [cls |-> cls, lo |-> lo, hi |-> hi]

pattern_type_pairs ==
  << [pattern |-> <<Rep(Digit, 4, 4), Rep(Sep, 1, 1), Rep(Digit, 2, 2),
                    Rep(Sep, 1, 1), Rep(Digit, 2, 2)>>, type |-> "date"],
     [pattern |-> <<Rep(Digit, 2, 2), Rep(Sep, 1, 1), Rep(Digit, 2, 2),
                    Rep(Sep, 1, 1), Rep(Digit, 4, 4)>>, type |-> "date"],
     [pattern |-> <<Rep(Digit, 2, 2), Rep(Sep, 1, 1), Rep(Digit, 2, 2),
                    Rep(Sep, 1, 1), Rep(Digit, 2, 2)>>, type |-> "date"],
     [pattern |-> <<Rep(Sign, 0, 1), Rep(Digit, 1, -1), Rep(Dot, 1, 1),
                    Rep(Digit, 1, -1)>>, type |-> "float(15)"],
     [pattern |-> <<Rep(Sign, 0, 1), Rep(Digit, 1, -1)>>,
      type |-> "float(15)"] >>

\* The longest run of characters of item's class at offset pos, capped by hi.
RECURSIVE MaxRun(_, _, _, _)
MaxRun(item, s, pos, n) ==
  IF pos + n < Len(s) /\ (item.hi = -1 \/ n < item.hi)
     /\ s[pos + n + 1] \in item.cls
  THEN MaxRun(item, s, pos, n + 1)
  ELSE n

\* re's backtracking matcher: the end offset of the match of pattern[k..]
\* at offset pos, greedy repetitions tried longest first; -1 if none.
RECURSIVE MatchFrom(_, _, _, _), TryReps(_, _, _, _, _)
MatchFrom(pattern, k, s, pos) ==
  IF k > Len(pattern) THEN pos
  ELSE TryReps(pattern, k, s, pos, MaxRun(pattern[k], s, pos, 0))

TryReps(pattern, k, s, pos, n) ==
  IF n < pattern[k].lo THEN -1
  ELSE LET e == MatchFrom(pattern, k + 1, s, pos + n)
       IN IF e # -1 THEN e ELSE TryReps(pattern, k, s, pos, n - 1)

\* re.findall: the non-overlapping matches, scanning left to right.
RECURSIVE findall_from(_, _, _)
findall_from(pattern, s, start) ==
  IF start > Len(s) THEN <<>>
  ELSE LET e == MatchFrom(pattern, 1, s, start)
       IN IF e = -1 THEN findall_from(pattern, s, start + 1)
          ELSE <<SubSeq(s, start + 1, e)>>
               \o findall_from(pattern, s, IF e = start THEN start + 1 ELSE e)

findall(pattern, s) == findall_from(pattern, s, 0)

match_type_NoLengthTest(pattern, type, fld) ==
  LET match == findall(pattern, fld)
  IN IF Len(match) = 1 THEN type ELSE None

match_type(pattern, type, fld) ==
  LET match == findall(pattern, fld)
  IN IF Len(match) = 1 /\ Len(match[1]) = Len(fld) THEN type ELSE None

RECURSIVE guess_from(_, _)
guess_from(k, fld) ==
  IF k > Len(pattern_type_pairs) THEN "varchar(50)"
  ELSE LET type == match_type(pattern_type_pairs[k].pattern,
                              pattern_type_pairs[k].type, fld)
       IN IF type # None THEN type ELSE guess_from(k + 1, fld)

guess_sql_type(fld) ==
  IF Len(fld) = 0 THEN None ELSE guess_from(1, fld)

\* ------------------------------------------------------ the row stream
\* next(rows): the row at the file position and the position after it.
Pull_NoAdvance(pos) == [row |-> file[pos + 1], pos |-> pos]

Pull(pos) == [row |-> file[pos + 1], pos |-> pos + 1]

AtEnd(pos) == pos >= Len(file)

\* ------------------------------------------------ predict_column_types
SeedTypes_SkipEmpty(row) ==
  LET filled == SelectSeq(row, LAMBDA f : Len(f) # 0)
  IN [i \in 1..Len(filled) |-> guess_sql_type(filled[i])]

SeedTypes(row) == [i \in 1..Len(row) |-> guess_sql_type(row[i])]

CountTyped(ts) == Cardinality({i \in DOMAIN ts : ts[i] # None})

BreakTest_AnyTyped(count, row) == count >= 1 \/ count = Len(row)

BreakTest(count, row) == count = Len(row)

\* the indices enumerate(zip(row, types)) yields
ZipLen(row, ts) == IF Len(row) < Len(ts) THEN Len(row) ELSE Len(ts)

Refill_Overwrite(row, ts, i) == i <= ZipLen(row, ts) /\ Len(row[i]) # 0

Refill(row, ts, i) ==
  i <= ZipLen(row, ts) /\ Len(row[i]) # 0 /\ ts[i] = None

ProcessRow(row, ts) ==
  [i \in DOMAIN ts |->
     IF Refill(row, ts, i) THEN guess_sql_type(row[i]) ELSE ts[i]]

Increments(row, ts) == Cardinality({i \in DOMAIN ts : Refill(row, ts, i)})

\* ------------------------------------------------------------- inputs
\* fields given to predict_column_types on its own: empty, a number, a text
FieldSet == {<<>>, <<"7">>, <<"a">>}
\* fields where only emptiness matters: which rows are pulled and inserted
CellSet == {<<>>, <<"7">>}
\* rows of any length up to cols, blank lines (no field) included
Rows(fields, cols) == UNION {[1..n -> fields] : n \in 0..cols}
HeaderOf(cols) == [i \in 1..cols |-> <<"c">>]
Headers(cols) == {HeaderOf(n) : n \in 1..cols}
Tokens == {<<"1">>, <<"1", "1">>, <<"1", "1", "1", "1">>,
           <<".">>, <<"/">>, <<"-">>, <<"+">>, <<"x">>}
RECURSIVE Flatten(_)
Flatten(ts) == IF Len(ts) = 0 THEN <<>> ELSE Head(ts) \o Flatten(Tail(ts))

\* ------------------------------------------------------------ csv_to_db
Init ==
  /\ file = <<>>
  /\ filePos = 0
  /\ pc = "open"
  /\ column_names = <<>>
  /\ types = <<>>
  /\ no_of_typed_columns = 0
  /\ column_types = Unassigned
  /\ inserted = <<>>
  /\ field = <<>>
  /\ tag = Pending

\* lines 77-78: the file is opened, positioned at its first line
OpenFile ==
  /\ pc = "open"
  /\ \E n \in 0..(MaxRows + 1) :
       IF n = 0 THEN file' = <<>>
       ELSE \E rows \in [1..(n - 1) -> Rows(CellSet, MaxCols)] :
               file' = <<HeaderOf(MaxCols)>> \o rows
  /\ pc' = "read_header"
  /\ UNCHANGED <<filePos, column_names, types, no_of_typed_columns,
                 column_types, inserted, field, tag>>

\* line 81: column_names = next(csv_reader)
ReadHeader ==
  /\ pc = "read_header"
  /\ ~AtEnd(filePos)
  /\ column_names' = Pull(filePos).row
  /\ filePos' = Pull(filePos).pos
  /\ pc' = "predict"
  /\ UNCHANGED <<file, types, no_of_typed_columns, column_types, inserted,
                 field, tag>>

\* line 81 on a file with no line at all: StopIteration
ReadHeaderFail ==
  /\ pc = "read_header"
  /\ AtEnd(filePos)
  /\ pc' = "raised_81"
  /\ UNCHANGED <<file, filePos, column_names, types, no_of_typed_columns,
                 column_types, inserted, field, tag>>

\* lines 43-49: pull the first row, seed the vector, count the typed slots
PullFirst ==
  /\ pc = "predict"
  /\ ~AtEnd(filePos)
  /\ types' = SeedTypes(Pull(filePos).row)
  /\ no_of_typed_columns' = CountTyped(types')
  /\ filePos' = Pull(filePos).pos
  /\ pc' = "loop"
  /\ UNCHANGED <<file, column_names, column_types, inserted, field, tag>>

PullFirstFail_EmptyVector ==
  /\ pc = "predict"
  /\ AtEnd(filePos)
  /\ column_types' = <<>>
  /\ pc' = "returned"
  /\ UNCHANGED <<file, filePos, column_names, types, no_of_typed_columns,
                 inserted, field, tag>>

\* line 43 on an empty stream: StopIteration leaves predict_column_types
PullFirstFail ==
  /\ pc = "predict"
  /\ AtEnd(filePos)
  /\ pc' = "raised_43"
  /\ UNCHANGED <<file, filePos, column_names, types, no_of_typed_columns,
                 column_types, inserted, field, tag>>

\* lines 51-58, one iteration: the for statement pulls the row, then the
\* break test runs, then the row's fields are examined
PullNext ==
  /\ pc = "loop"
  /\ ~AtEnd(filePos)
  /\ filePos' = Pull(filePos).pos
  /\ LET row == Pull(filePos).row
     IN IF BreakTest(no_of_typed_columns, row)
        THEN /\ pc' = "returned"
             /\ column_types' = types
             /\ UNCHANGED <<types, no_of_typed_columns>>
        ELSE /\ types' = ProcessRow(row, types)
             /\ no_of_typed_columns' =
                  no_of_typed_columns + Increments(row, types)
             /\ UNCHANGED <<pc, column_types>>
  /\ UNCHANGED <<file, column_names, inserted, field, tag>>

\* lines 51, 58: the stream is exhausted, the loop ends, types is returned
Exhausted ==
  /\ pc = "loop"
  /\ AtEnd(filePos)
  /\ pc' = "returned"
  /\ column_types' = types
  /\ UNCHANGED <<file, filePos, column_names, types, no_of_typed_columns,
                 inserted, field, tag>>

\* lines 84-111: the connection is made and the table created
Connect ==
  /\ pc = "returned"
  /\ pc' = "skip_header"
  /\ UNCHANGED <<file, filePos, column_names, types, no_of_typed_columns,
                 column_types, inserted, field, tag>>

\* lines 87-89: get_db_connection returned None
ConnectFail ==
  /\ pc = "returned"
  /\ pc' = "no_connection"
  /\ UNCHANGED <<file, filePos, column_names, types, no_of_typed_columns,
                 column_types, inserted, field, tag>>

\* lines 112-113: a second reader over the same file object, one line skipped
SkipHeader ==
  /\ pc = "skip_header"
  /\ ~AtEnd(filePos)
  /\ filePos' = Pull(filePos).pos
  /\ pc' = "insert"
  /\ UNCHANGED <<file, column_names, types, no_of_typed_columns,
                 column_types, inserted, field, tag>>

\* line 113 with no line left: StopIteration
SkipHeaderFail ==
  /\ pc = "skip_header"
  /\ AtEnd(filePos)
  /\ pc' = "raised_113"
  /\ UNCHANGED <<file, filePos, column_names, types, no_of_typed_columns,
                 column_types, inserted, field, tag>>

NullIfEmpty(row) ==
  [i \in 1..Len(row) |-> IF Len(row[i]) > 0 THEN row[i] ELSE None]

\* lines 117-121: one row inserted
InsertRow ==
  /\ pc = "insert"
  /\ ~AtEnd(filePos)
  /\ inserted' = Append(inserted, [line |-> filePos + 1,
                                   values |-> NullIfEmpty(Pull(filePos).row)])
  /\ filePos' = Pull(filePos).pos
  /\ UNCHANGED <<file, pc, column_names, types, no_of_typed_columns,
                 column_types, field, tag>>

\* lines 117, 122-127: no row left, commit
Finish ==
  /\ pc = "insert"
  /\ AtEnd(filePos)
  /\ pc' = "done"
  /\ UNCHANGED <<file, filePos, column_names, types, no_of_typed_columns,
                 column_types, inserted, field, tag>>

Next ==
  \/ OpenFile
  \/ ReadHeader
  \/ ReadHeaderFail
  \/ PullFirst
  \/ PullFirstFail
  \/ PullNext
  \/ Exhausted
  \/ Connect
  \/ ConnectFail
  \/ SkipHeader
  \/ SkipHeaderFail
  \/ InsertRow
  \/ Finish

Spec == Init /\ [][Next]_vars

\* ------------------------------ predict_column_types on its own
\* the state at the call in line 82: the header is read, the stream stands
\* at the first data row
InitResolve ==
  /\ \E h \in Headers(MaxStreamCols), n \in 0..MaxStreamRows :
       \E rows \in [1..n -> Rows(FieldSet, MaxStreamCols)] :
          /\ file = <<h>> \o rows
          /\ column_names = h
  /\ filePos = 1
  /\ pc = "predict"
  /\ types = <<>>
  /\ no_of_typed_columns = 0
  /\ column_types = Unassigned
  /\ inserted = <<>>
  /\ field = <<>>
  /\ tag = Pending

NextResolve ==
  \/ PullFirst
  \/ PullFirstFail
  \/ PullNext
  \/ Exhausted

\* the program is sequential: a step that can be taken is taken
SpecResolve == InitResolve /\ [][NextResolve]_vars /\ WF_vars(NextResolve)

\* the same call on the streams over CellSet under a header of
\* MaxStreamCols columns
InitTerminate ==
  /\ \E n \in 0..MaxStreamRows :
       \E rows \in [1..n -> Rows(CellSet, MaxStreamCols)] :
          file = <<HeaderOf(MaxStreamCols)>> \o rows
  /\ column_names = HeaderOf(MaxStreamCols)
  /\ filePos = 1
  /\ pc = "predict"
  /\ types = <<>>
  /\ no_of_typed_columns = 0
  /\ column_types = Unassigned
  /\ inserted = <<>>
  /\ field = <<>>
  /\ tag = Pending

SpecTerminate ==
  InitTerminate /\ [][NextResolve]_vars /\ WF_vars(NextResolve)

\* ------------------------------------------- the classifier on its own
InitClassify ==
  /\ \E n \in 0..MaxTokens : \E ts \in [1..n -> Tokens] :
       field = Flatten(ts)
  /\ tag = Pending
  /\ file = <<>>
  /\ filePos = 0
  /\ pc = "classify"
  /\ column_names = <<>>
  /\ types = <<>>
  /\ no_of_typed_columns = 0
  /\ column_types = Unassigned
  /\ inserted = <<>>

\* lines 24-39
Classify ==
  /\ pc = "classify"
  /\ tag = Pending
  /\ tag' = guess_sql_type(field)
  /\ UNCHANGED <<file, filePos, pc, column_names, types,
                 no_of_typed_columns, column_types, inserted, field>>

NextClassify == Classify

SpecClassify == InitClassify /\ [][NextClassify]_vars

\* ======================================================== properties
DataRows == IF Len(file) = 0 THEN 0 ELSE Len(file) - 1

\* all data rows have the header's arity
Uniform == \A r \in 2..Len(file) : Len(file[r]) = Len(file[1])

\* predict_column_types has returned its vector to csv_to_db
Returned ==
  pc \in {"returned", "skip_header", "no_connection", "insert", "done",
          "raised_113"}

AllResolved(ts) == \A i \in DOMAIN ts : ts[i] # None

\* the data rows (as file lines) in which column c has a non-empty field
NonEmptyLines(c) ==
  {r \in 2..Len(file) : c <= Len(file[r]) /\ Len(file[r][c]) # 0}

FirstNonEmptyLine(c) ==
  CHOOSE r \in NonEmptyLines(c) : \A q \in NonEmptyLines(c) : r <= q

\* C1: for a non-empty row stream of uniform arity, the returned vector has
\* no unresolved slot; a column with no non-empty value is tagged
\* varchar(50).
C1_NoUnresolvedReturned ==
  (Returned /\ Uniform /\ DataRows >= 1) =>
     /\ AllResolved(column_types)
     /\ \A c \in DOMAIN column_types :
          NonEmptyLines(c) = {} => column_types[c] = "varchar(50)"

\* C2: for a row stream of uniform arity, a column with a non-empty value in
\* some row is returned with guess_sql_type of the first non-empty value of
\* that column, whatever the later rows hold.
C2_FirstNonEmptyDecides ==
  (Returned /\ Uniform) =>
     \A c \in 1..Len(column_names) :
        NonEmptyLines(c) # {} =>
           /\ c \in DOMAIN column_types
           /\ column_types[c] = guess_sql_type(file[FirstNonEmptyLine(c)][c])

\* a row that was processed (no break: a column is still open) holds, in a
\* column resolved by an earlier row, a value of another type, and the
\* column has kept the earlier type
C2_Witness ==
  /\ pc = "returned" /\ Uniform
  /\ ~AllResolved(column_types)
  /\ \E c \in 1..Len(column_names) :
       \E r \in NonEmptyLines(c) :
          /\ r > FirstNonEmptyLine(c)
          /\ r <= filePos
          /\ guess_sql_type(file[r][c]) #
               guess_sql_type(file[FirstNonEmptyLine(c)][c])
          /\ column_types[c] = guess_sql_type(file[FirstNonEmptyLine(c)][c])

\* C3: once the number of resolved slots equals the column count, no further
\* row is pulled from the stream.
C3_NoPullOnceResolved ==
  [][(pc = "loop" /\ Uniform /\ no_of_typed_columns = Len(column_names))
       => filePos' = filePos]_vars

\* C4: a slot that holds a tag keeps that tag in every later state.
C4_ResolvedSlotKept ==
  [][\A i \in DOMAIN types :
        types[i] # None => (i \in DOMAIN types' /\ types'[i] = types[i])]_vars

\* a row was processed that holds a non-empty value of another type in a
\* column already resolved, next to a column it resolved
C4_Witness ==
  /\ pc = "loop"
  /\ filePos = 3
  /\ file[2] = <<(<<"7">>), <<>>>>
  /\ file[3] = <<(<<"a">>), (<<"a">>)>>
  /\ types = <<"float(15)", "varchar(50)">>

RECURSIVE Ends(_, _, _)
Ends(pattern, k, s) ==
  IF k = 0 THEN {0}
  ELSE LET before == Ends(pattern, k - 1, s)
       IN {e \in 0..Len(s) :
             \E b \in before :
                /\ b <= e
                /\ e - b >= pattern[k].lo
                /\ (pattern[k].hi = -1 \/ e - b <= pattern[k].hi)
                /\ \A j \in (b + 1)..e : s[j] \in pattern[k].cls}

\* the entire string, with no remainder, is a word of the pattern
FullMatch(pattern, s) == Len(s) \in Ends(pattern, Len(pattern), s)

FullMatching(s) ==
  {k \in DOMAIN pattern_type_pairs :
     FullMatch(pattern_type_pairs[k].pattern, s)}

FirstFullMatchTag(s) ==
  IF Len(s) = 0 THEN None
  ELSE IF FullMatching(s) = {} THEN "varchar(50)"
  ELSE pattern_type_pairs[CHOOSE k \in FullMatching(s) :
                            \A j \in FullMatching(s) : k <= j].type

\* C6: guess_sql_type returns None exactly for the empty string, otherwise
\* the tag of the first pattern, in list order, that matches the entire
\* string, and varchar(50) when no pattern matches the entire string.
C6_FirstFullMatchWins ==
  (tag # Pending) =>
     /\ tag = FirstFullMatchTag(field)
     /\ (tag = None <=> Len(field) = 0)

\* a string holding a yyyy-mm-dd date and a dd-mm-yyyy date as proper
\* substrings was classified
C6_Witness ==
  /\ field = <<"1", "1", "1", "1", "-", "1", "1", "/",
               "1", "1", "1", "1">>
  /\ tag = "varchar(50)"

\* C7: when all rows have the header's arity, the type vector has the
\* header's length from seeding until it is returned, and slot i holds the
\* classification of a value of column i.
C7_VectorLength ==
  (Uniform /\ (pc = "loop" \/ Returned)) =>
     /\ Len(types) = Len(column_names)
     /\ Returned => Len(column_types) = Len(column_names)
     /\ \A i \in DOMAIN types :
          types[i] # None =>
            \E r \in 2..filePos :
               Len(file[r][i]) # 0 /\ types[i] = guess_sql_type(file[r][i])

\* a two-column vector with an open slot was returned
C7_Witness ==
  /\ pc = "returned"
  /\ Uniform
  /\ Len(column_names) = 2
  /\ DataRows = 2
  /\ column_types = <<None, "varchar(50)">>

\* C8: on an empty row stream predict_column_types ends in an error that
\* reaches the caller, and no type vector is returned.
C8_EmptyStreamRaises ==
  (DataRows = 0 /\ pc \notin {"open", "read_header", "predict"}) =>
     /\ pc \in {"raised_43", "raised_81"}
     /\ column_types = Unassigned
     /\ inserted = <<>>

\* a file with a header and no data row: StopIteration at line 43
C8_Witness ==
  /\ Len(file) = 1
  /\ pc = "raised_43"
  /\ column_types = Unassigned

\* C9: for a file of a header and N >= 1 data rows, each data row is
\* inserted exactly once, in order, and the header is not inserted.
C9_EveryDataRowInserted ==
  (pc = "done" /\ DataRows >= 1) =>
     /\ Len(inserted) = DataRows
     /\ \A n \in 1..DataRows :
          /\ inserted[n].line = n + 1
          /\ inserted[n].values = NullIfEmpty(file[n + 1])

\* C10: for any row stream, rows of any length, predict_column_types stops
\* before the stream is exhausted only if every slot is resolved.
C10_EarlyStopOnlyWhenResolved ==
  (pc = "returned" /\ ~AtEnd(filePos)) => AllResolved(column_types)
====
